---- MODULE Spec2Model ----
(***************************************************************************)
(* A model of the Tesla sales toolkit: tesla_data.py (region partitioning, *)
(* date synthesis, per-region export) and tesla_timeseries.py (the date    *)
(* guard _prepare_ts_df and the six group-by-date analyses).               *)
(*                                                                         *)
(* A DataFrame is a record [columns, rows]; a row holds one cell per       *)
(* column of the schema.  A numeric cell is NaN or the number n (+ 0.5     *)
(* when half); a string cell is NaN or a sequence of code points; a Date   *)
(* cell is absent, a "str" (as read_csv delivers it) or a "ts" (a pandas   *)
(* Timestamp).  The caller holds one DataFrame, df, calls the library on   *)
(* it, and may rebind df to a returned table.                              *)
(***************************************************************************)
EXTENDS Integers, Sequences, FiniteSets, TLC

VARIABLES df, out, files

vars == <<df, out, files>>

\* ------------------------------------------------------------------ bounds
MaxRows == 3

\* ------------------------------------------------------------------- cells
NaN == [k |-> "nan", n |-> 0, half |-> FALSE]

Num(n) == [k |-> "num", n |-> n, half |-> FALSE]

Half(n) == [k |-> "num", n |-> n, half |-> TRUE]

NaStr == [na |-> TRUE, s |-> <<>>]

Str(s) == [na |-> FALSE, s |-> s]

NoDate == [k |-> "none", y |-> 0, m |-> 0, d |-> 0]

DateStr(y, m, d) == [k |-> "str", y |-> y, m |-> m, d |-> d]

Timestamp(y, m, d) == [k |-> "ts", y |-> y, m |-> m, d |-> d]

\* Region and Model names, as code points: "EU", "US", " A/B"; "A", "B".
EU == <<69, 85>>

US == <<85, 83>>

AB == <<32, 65, 47, 66>>

ModelA == <<65>>

ModelB == <<66>>

AllColumns == {"Year", "Month", "Region", "Model", "Estimated_Deliveries",
               "Production_Units", "Avg_Price_USD", "Battery_Capacity_kWh",
               "Range_km", "Charging_Stations"}

\* ----------------------------------------------------------------- helpers
RECURSIVE SumSeq(_)
SumSeq(s) == IF s = <<>> THEN 0 ELSE Head(s) + SumSeq(Tail(s))

Map(s, F(_)) == [i \in 1..Len(s) |-> F(s[i])]

\* Python's str comparison: lexicographic on code points.
RECURSIVE StrLe(_, _)
StrLe(a, b) ==
    IF a = <<>> THEN TRUE
    ELSE IF b = <<>> THEN FALSE
    ELSE IF Head(a) < Head(b) THEN TRUE
    ELSE IF Head(a) > Head(b) THEN FALSE
    ELSE StrLe(Tail(a), Tail(b))

\* Series.unique(): the distinct values in order of first occurrence.
RECURSIVE Unique(_)
Unique(s) ==
    IF s = <<>> THEN <<>>
    ELSE LET u == Unique(SubSeq(s, 1, Len(s) - 1))
             x == s[Len(s)]
         IN  IF \E i \in 1..Len(u) : u[i] = x THEN u ELSE Append(u, x)

\* ------------------------------------------------------------ tesla_data
\* The value of a numeric cell, doubled (so that n + 0.5 is an integer).
Twice(c) == IF c.n >= 0 THEN 2 * c.n + (IF c.half THEN 1 ELSE 0)
            ELSE 2 * c.n - (IF c.half THEN 1 ELSE 0)

\* Ascending order of one numeric key, NaN last (na_position="last").
NumLt(a, b) ==
    IF a.k = "nan" THEN FALSE
    ELSE IF b.k = "nan" THEN TRUE
    ELSE Twice(a) < Twice(b)

\* sort_values(by=["Year", "Month"]): a lexsort, which is stable.
YearMonthLe(r1, r2) ==
    ~ (NumLt(r2.Year, r1.Year)
       \/ (~ NumLt(r1.Year, r2.Year) /\ NumLt(r2.Month, r1.Month)))

\* Ascending order of one string key, NaN last.
StrCellLt(a, b) ==
    IF a.na THEN FALSE
    ELSE IF b.na THEN TRUE
    ELSE a.s # b.s /\ StrLe(a.s, b.s)

\* sort_values(["Year", "Month", "Region", "Model"]) of load_tesla_data.
LoadLe(r1, r2) ==
    IF NumLt(r1.Year, r2.Year) THEN TRUE
    ELSE IF NumLt(r2.Year, r1.Year) THEN FALSE
    ELSE IF NumLt(r1.Month, r2.Month) THEN TRUE
    ELSE IF NumLt(r2.Month, r1.Month) THEN FALSE
    ELSE IF StrCellLt(r1.Region, r2.Region) THEN TRUE
    ELSE IF StrCellLt(r2.Region, r1.Region) THEN FALSE
    ELSE ~ StrCellLt(r2.Model, r1.Model)

\* The orders the code sorts by: sorted() on region names, and
\* sort_values(by=["Year", "Month"]).
SortLe(by, a, b) ==
    IF by = "str" THEN StrLe(a, b)
    ELSE IF by = "load" THEN LoadLe(a, b)
    ELSE YearMonthLe(a, b)

\* A stable insertion of x into the sorted sequence s (after its equals).
RECURSIVE InsertBy(_, _, _)
InsertBy(x, s, by) ==
    IF s = <<>> THEN <<x>>
    ELSE IF SortLe(by, Head(s), x) THEN <<Head(s)>> \o InsertBy(x, Tail(s), by)
    ELSE <<x>> \o s

\* sorted(), and the lexsort of a multi-key sort_values: both are stable.
RECURSIVE StableSortBy(_, _)
StableSortBy(s, by) ==
    IF s = <<>> THEN <<>>
    ELSE InsertBy(s[Len(s)], StableSortBy(SubSeq(s, 1, Len(s) - 1), by), by)

\* What the last call was and gave: the operation, the DataFrame it was
\* called on (as it was then), its other arguments, the exception it raised
\* (if any) and what it returned.
NoResult == [op |-> "", err |-> "", arg |-> [columns |-> {}, rows |-> <<>>],
             table |-> [columns |-> {}, rows |-> <<>>],
             args |-> <<>>, names |-> <<>>, parts |-> <<>>, series |-> <<>>,
             stats |-> <<>>]

\* get_region_names without its sorted(): the order of first occurrence.
GetRegionNamesNoSort(d, sort) ==
    Unique(Map(SelectSeq(d.rows, LAMBDA r : ~ r.Region.na), LAMBDA r : r.Region.s))

\* get_region_names: df[region_col].dropna().unique().tolist(), then sorted().
get_region_names(d, sort) ==
    LET regions == Unique(Map(SelectSeq(d.rows, LAMBDA r : ~ r.Region.na),
                              LAMBDA r : r.Region.s))
    IN  IF sort THEN StableSortBy(regions, "str") ELSE regions

\* The loop body with a drop_duplicates() after the filter.
RegionFrameDropDuplicates(d, region, drop_region_col) ==
    LET temp == StableSortBy(
                    Unique(SelectSeq(d.rows,
                                     LAMBDA r : ~ r.Region.na /\ r.Region.s = region)),
                    "YearMonth")
    IN  IF drop_region_col
        THEN [columns |-> d.columns \ {"Region"},
              rows |-> Map(temp, LAMBDA r : [r EXCEPT !.Region = NaStr])]
        ELSE [columns |-> d.columns, rows |-> temp]

\* The body of split_by_region's loop for one region.
RegionFrame(d, region, drop_region_col) ==
    LET temp == StableSortBy(
                    SelectSeq(d.rows, LAMBDA r : ~ r.Region.na /\ r.Region.s = region),
                    "YearMonth")
    IN  IF drop_region_col
        THEN [columns |-> d.columns \ {"Region"},
              rows |-> Map(temp, LAMBDA r : [r EXCEPT !.Region = NaStr])]
        ELSE [columns |-> d.columns, rows |-> temp]

\* split_by_region: a dict, in the order of get_region_names(sort=True).
split_by_region(d, drop_region_col) ==
    LET region_names == get_region_names(d, TRUE)
    IN  [i \in 1..Len(region_names) |->
            [region |-> region_names[i],
             table |-> RegionFrame(d, region_names[i], drop_region_col)]]

\* Series.astype(int): raises on NaN (IntCastingNaNError, a ValueError);
\* a float is truncated to its whole part.
AstypeIntRaises(cells) == \E i \in 1..Len(cells) : cells[i].k = "nan"

\* A conversion that rounds a half up instead of truncating.
AstypeIntRounding(c) == IF c.half THEN c.n + 1 ELSE c.n

AstypeInt(c) == c.n

\* What pd.to_datetime accepts of a "Y-M-D" string: a month of the calendar,
\* a day of that month, a year a Timestamp can hold.
Parses(c) ==
    /\ c.m \in 1..12
    /\ c.d \in 1..28
    /\ c.y \in 1678..2261

\* pd.to_datetime on one cell: a Timestamp is kept, a string is parsed.
to_datetime(c) == IF c.k = "ts" THEN c ELSE Timestamp(c.y, c.m, c.d)

ToDatetimeRaises(cells) ==
    \E i \in 1..Len(cells) : cells[i].k # "ts" /\ ~ Parses(cells[i])

\* year.astype(int).astype(str) + "-" + month.astype(int).astype(str) + "-01"
YearMonthString(r) == DateStr(AstypeInt(r.Year), AstypeInt(r.Month), 1)

\* add_date_column: works on a copy; [err, table].
add_date_column(d) ==
    IF \/ AstypeIntRaises(Map(d.rows, LAMBDA r : r.Year))
       \/ AstypeIntRaises(Map(d.rows, LAMBDA r : r.Month))
       \/ ToDatetimeRaises(Map(d.rows, YearMonthString))
    THEN [err |-> "ValueError", table |-> NoResult.table]
    ELSE [err |-> "",
          table |-> [columns |-> d.columns \cup {"Date"},
                     rows |-> Map(d.rows, LAMBDA r :
                                 [r EXCEPT !.Date = to_datetime(YearMonthString(r))])]]

\* ------------------------------------------------- tesla_data: the files
\* "tesla_" (the default prefix) and ".csv", as code points.
TeslaPrefix == <<116, 101, 115, 108, 97, 95>>

CsvSuffix == <<46, 99, 115, 118>>

Whitespace == {9, 10, 11, 12, 13, 32}

\* str.strip()
RECURSIVE LStrip(_)
LStrip(s) == IF s # <<>> /\ Head(s) \in Whitespace THEN LStrip(Tail(s)) ELSE s

RECURSIVE RStrip(_)
RStrip(s) ==
    IF s # <<>> /\ s[Len(s)] \in Whitespace THEN RStrip(SubSeq(s, 1, Len(s) - 1)) ELSE s

Strip(s) == RStrip(LStrip(s))

\* str.lower(), on ASCII
Lower(s) == [i \in 1..Len(s) |-> IF s[i] \in 65..90 THEN s[i] + 32 ELSE s[i]]

\* str.replace(old, new) for one-character strings
Replace(s, old, new) == [i \in 1..Len(s) |-> IF s[i] = old THEN new ELSE s[i]]

\* str(region).strip().lower().replace(" ", "_").replace("/", "_")
SafeRegion(region) == Replace(Replace(Lower(Strip(region)), 32, 95), 47, 95)

\* out_dir / f"{prefix}{safe_region}.csv"
OutPath(prefix, safe_region) == prefix \o safe_region \o CsvSuffix

\* DataFrame.to_csv(index=False) followed by read_csv: what a file holds, as a
\* reader gets it back.  A Timestamp is written as text.
to_csv(t) ==
    [t EXCEPT !.rows = Map(t.rows, LAMBDA r :
        [r EXCEPT !.Date = IF r.Date.k = "ts"
                           THEN DateStr(r.Date.y, r.Date.m, r.Date.d) ELSE r.Date])]

\* The loop of save_region_dfs (lines 75-82): it only binds safe_region and
\* rdf; they are unbound when region_dfs is empty.
RECURSIVE LoopVars(_, _)
LoopVars(region_dfs, bound) ==
    IF region_dfs = <<>> THEN bound
    ELSE LoopVars(Tail(region_dfs),
                  <<[safe_region |-> SafeRegion(Head(region_dfs).region),
                     rdf |-> Head(region_dfs).table]>>)

WriteFile(dir, path, content) ==
    {f \in dir : f.path # path} \cup {[path |-> path, content |-> content]}

\* An export with the write inside the loop: one file per region.
SaveEveryRegion(dir, region_dfs, prefix) ==
    LET RECURSIVE Each(_, _)
        Each(d, rest) ==
            IF rest = <<>> THEN d
            ELSE Each(WriteFile(d, OutPath(prefix, SafeRegion(Head(rest).region)),
                                to_csv(Head(rest).table)), Tail(rest))
    IN  [err |-> "", files |-> Each(dir, region_dfs)]

\* save_region_dfs: lines 83-84 follow the loop, so one file is written, from
\* the loop's last bindings; [err, files].
save_region_dfs(dir, region_dfs, prefix) ==
    LET bound == LoopVars(region_dfs, <<>>)
    IN  IF bound = <<>> THEN [err |-> "NameError", files |-> dir]
        ELSE [err |-> "",
              files |-> WriteFile(dir, OutPath(prefix, bound[1].safe_region),
                                  to_csv(bound[1].rdf))]

\* load_tesla_data: read_csv, then sort_values(["Year", "Month", "Region",
\* "Model"]) (a stable lexsort) when sort is set; [err, table].
load_tesla_data(content, sort) ==
    IF ~ sort THEN [err |-> "", table |-> content]
    ELSE IF "Region" \notin content.columns
    THEN [err |-> "KeyError", table |-> NoResult.table]
    ELSE [err |-> "",
          table |-> [content EXCEPT !.rows = StableSortBy(content.rows, "load")]]

\* ------------------------------------------------------- tesla_timeseries
DateOrd(c) == (c.y * 12 + c.m) * 31 + c.d

Orderings(n) ==
    {f \in [1..n -> 1..n] : \A i, j \in 1..n : i # j => f[i] # f[j]}

\* df.sort_values(date_col): a single-key sort with the default
\* kind="quicksort", which is not stable: any order of the rows that is
\* ascending in the key can come out.
SortValuesByDate(rows) ==
    {[i \in 1..Len(rows) |-> rows[f[i]]] :
        f \in {g \in Orderings(Len(rows)) :
                 \A i \in 1..(Len(rows) - 1) :
                     DateOrd(rows[g[i]].Date) <= DateOrd(rows[g[i + 1]].Date)}}

\* The object _prepare_ts_df works on after line 14: a copy with a Date
\* column, or the caller's own DataFrame.
PrepareInput(d) ==
    IF "Date" \notin d.columns THEN add_date_column(d) ELSE [err |-> "", table |-> d]

PrepareRaises(d) ==
    \/ PrepareInput(d).err # ""
    \/ ToDatetimeRaises(Map(PrepareInput(d).table.rows, LAMBDA r : r.Date))

\* df[date_col] = pd.to_datetime(df[date_col]) (line 16).
WithDatetime(t) ==
    [t EXCEPT !.rows = Map(t.rows, LAMBDA r : [r EXCEPT !.Date = to_datetime(r.Date)])]

\* The caller's DataFrame after _prepare_ts_df(d): line 16 assigns into it
\* when it already had the Date column (no copy was made).
CallerAfterPrepare(d) ==
    IF PrepareRaises(d) \/ "Date" \notin d.columns THEN d ELSE WithDatetime(d)

\* _prepare_ts_df: every [err, table] the call can end with.
prepare_ts_df(d) ==
    LET input == PrepareInput(d)
    IN  IF input.err # "" \/ ToDatetimeRaises(Map(input.table.rows, LAMBDA r : r.Date))
        THEN {[err |-> "ValueError", table |-> NoResult.table]}
        ELSE {[err |-> "", table |-> [columns |-> input.table.columns, rows |-> s]] :
                s \in SortValuesByDate(WithDatetime(input.table).rows)}

\* An aggregated value: the fraction num/den, or what a division by zero
\* leaves in a float column: inf (x/0) or nan (0/0).
Rat(num, den) == [k |-> "num", num |-> num, den |-> den]

Inf == [k |-> "inf", num |-> 1, den |-> 0]

NaNValue == [k |-> "nan", num |-> 0, den |-> 0]

\* Float division, elementwise as pandas does it: no ZeroDivisionError.
Div(a, b) ==
    IF b = 0 THEN (IF a = 0 THEN NaNValue ELSE Inf) ELSE Rat(a, b)

\* Group keys in descending order.
SortDatesDescending(S) ==
    LET RECURSIVE Desc(_)
        Desc(T) == IF T = {} THEN <<>>
                   ELSE LET x == CHOOSE x \in T : \A y \in T : DateOrd(y) <= DateOrd(x)
                        IN  <<x>> \o Desc(T \ {x})
    IN  Desc(S)

\* The group keys of a groupby (sort=True): ascending.
SortDates(S) ==
    LET RECURSIVE Asc(_)
        Asc(T) == IF T = {} THEN <<>>
                  ELSE LET x == CHOOSE x \in T : \A y \in T : DateOrd(x) <= DateOrd(y)
                       IN  <<x>> \o Asc(T \ {x})
    IN  Asc(S)

GroupKeys(rows) == SortDates({rows[i].Date : i \in 1..Len(rows)})

\* The non-null cells of column col in the group of date d.
GroupCells(rows, d, col) ==
    Map(SelectSeq(rows, LAMBDA r : r.Date = d /\ r[col].k # "nan"),
        LAMBDA r : r[col].n)

\* An aggregation that keeps each group's first value (first() for sum()).
GroupbySumFirst(rows, cols) ==
    Map(GroupKeys(rows), LAMBDA d :
        [Date |-> d,
         v |-> [c \in cols |->
                  Rat(IF GroupCells(rows, d, c) = <<>> THEN 0
                      ELSE Head(GroupCells(rows, d, c)), 1)]])

\* df.groupby(date_col)[cols].sum(): NaN cells are skipped.
groupby_sum(rows, cols) ==
    Map(GroupKeys(rows), LAMBDA d :
        [Date |-> d, v |-> [c \in cols |-> Rat(SumSeq(GroupCells(rows, d, c)), 1)]])

\* df.groupby(date_col)[cols].mean(): NaN when the group has no value.
groupby_mean(rows, cols) ==
    Map(GroupKeys(rows), LAMBDA d :
        [Date |-> d,
         v |-> [c \in cols |->
                  IF GroupCells(rows, d, c) = <<>> THEN NaNValue
                  ELSE Rat(SumSeq(GroupCells(rows, d, c)), Len(GroupCells(rows, d, c)))]])

\* groupby([date_col, "Model"]): rows with a null key are dropped.
KeyedRows(rows) == SelectSeq(rows, LAMBDA r : ~ r.Model.na)

ModelColumns(rows) ==
    StableSortBy(Unique(Map(KeyedRows(rows), LAMBDA r : r.Model.s)), "str")

\* ...["Estimated_Deliveries"].sum().unstack("Model").fillna(0.0)
PivotCell(rows, d, model) ==
    SumSeq(GroupCells(SelectSeq(KeyedRows(rows), LAMBDA r : r.Model.s = model),
                      d, "Estimated_Deliveries"))

\* pivot.sum(axis=1)
PivotRowSum(rows, d) ==
    SumSeq(Map(ModelColumns(rows), LAMBDA model : PivotCell(rows, d, model)))

\* share = pivot.div(pivot.sum(axis=1), axis=0)
model_share(rows) ==
    Map(GroupKeys(KeyedRows(rows)), LAMBDA d :
        [Date |-> d,
         v |-> [model \in {ModelColumns(rows)[i] : i \in 1..Len(ModelColumns(rows))} |->
                  Div(PivotCell(rows, d, model), PivotRowSum(rows, d))]])

RatAdd(a, b) == Rat(a.num * b.den + b.num * a.den, a.den * b.den)

RECURSIVE RatSum(_)
RatSum(s) == IF s = <<>> THEN Rat(0, 1) ELSE RatAdd(Head(s), RatSum(Tail(s)))

\* Series.mean(): NaN is skipped, inf is not.
SeriesMean(s) ==
    LET vals == SelectSeq(s, LAMBDA x : x.k # "nan")
    IN  IF vals = <<>> THEN NaNValue
        ELSE IF \E i \in 1..Len(vals) : vals[i].k = "inf" THEN Inf
        ELSE Rat(RatSum(vals).num, RatSum(vals).den * Len(vals))

\* ratio = monthly["Estimated_Deliveries"] / monthly["Production_Units"]
\* and ratio.mean() (lines 140 and 146); only when monthly is not empty.
RatioStats(monthly) ==
    LET ratio == Map(monthly, LAMBDA e :
                     Div(e.v["Estimated_Deliveries"].num, e.v["Production_Units"].num))
    IN  IF monthly = <<>> THEN <<>>
        ELSE <<[ratio |-> ratio, ratio_mean |-> SeriesMean(ratio)]>>

\* ---------------------------------------------------------------- actions
GetRegionNames ==
    \E sort \in BOOLEAN :
        /\ out' = IF "Region" \in df.columns
                  THEN [NoResult EXCEPT !.op = "get_region_names", !.arg = df,
                                        !.args = <<sort>>,
                                        !.names = get_region_names(df, sort)]
                  ELSE [NoResult EXCEPT !.op = "get_region_names", !.arg = df, !.err = "KeyError"]
        /\ UNCHANGED <<df, files>>

SplitByRegion ==
    \E drop_region_col \in BOOLEAN :
        /\ out' = IF "Region" \in df.columns
                  THEN [NoResult EXCEPT !.op = "split_by_region", !.arg = df,
                                        !.args = <<drop_region_col>>,
                                        !.parts = split_by_region(df, drop_region_col)]
                  ELSE [NoResult EXCEPT !.op = "split_by_region", !.arg = df, !.err = "KeyError"]
        /\ UNCHANGED <<df, files>>

AddDateColumn ==
    /\ out' = [NoResult EXCEPT !.op = "add_date_column", !.arg = df,
                               !.err = add_date_column(df).err,
                               !.table = add_date_column(df).table]
    /\ UNCHANGED <<df, files>>

PrepareTsDf ==
    \E p \in prepare_ts_df(df) :
        /\ out' = [NoResult EXCEPT !.op = "_prepare_ts_df", !.arg = df, !.err = p.err,
                                   !.table = p.table]
        /\ df' = CallerAfterPrepare(df)
        /\ UNCHANGED files

\* What a plot_* call leaves in out: the error of _prepare_ts_df, or the
\* aggregate it returns with return_data=True and the statistics it prints.
Plotted(op, p, series, stats) ==
    IF p.err # "" THEN [NoResult EXCEPT !.op = op, !.arg = df, !.err = p.err]
    ELSE [NoResult EXCEPT !.op = op, !.arg = df, !.series = series, !.stats = stats]

PlotMonthlyDeliveries ==
    \E p \in prepare_ts_df(df) :
        /\ out' = Plotted("plot_monthly_deliveries", p,
                          groupby_sum(p.table.rows, {"Estimated_Deliveries"}), <<>>)
        /\ df' = CallerAfterPrepare(df)
        /\ UNCHANGED files

PlotProductionVsDeliveries ==
    \E p \in prepare_ts_df(df) :
        /\ out' = LET monthly == groupby_sum(p.table.rows,
                                  {"Estimated_Deliveries", "Production_Units"})
                  IN  Plotted("plot_production_vs_deliveries", p, monthly,
                              RatioStats(monthly))
        /\ df' = CallerAfterPrepare(df)
        /\ UNCHANGED files

PlotAvgPriceTs ==
    \E p \in prepare_ts_df(df) :
        /\ out' = Plotted("plot_avg_price_ts", p,
                          groupby_mean(p.table.rows, {"Avg_Price_USD"}), <<>>)
        /\ df' = CallerAfterPrepare(df)
        /\ UNCHANGED files

PlotModelShareTs ==
    \E p \in prepare_ts_df(df) :
        /\ out' = Plotted("plot_model_share_ts", p, model_share(p.table.rows), <<>>)
        /\ df' = CallerAfterPrepare(df)
        /\ UNCHANGED files

PlotBatteryAndRangeTs ==
    \E p \in prepare_ts_df(df) :
        /\ out' = Plotted("plot_battery_and_range_ts", p,
                          groupby_mean(p.table.rows, {"Battery_Capacity_kWh", "Range_km"}),
                          <<>>)
        /\ df' = CallerAfterPrepare(df)
        /\ UNCHANGED files

PlotInfraVsSalesTs ==
    \E p \in prepare_ts_df(df) :
        /\ out' = Plotted("plot_infra_vs_sales_ts", p,
                          groupby_sum(p.table.rows,
                                      {"Estimated_Deliveries", "Charging_Stations"}),
                          <<>>)
        /\ df' = CallerAfterPrepare(df)
        /\ UNCHANGED files

\* save_region_dfs(region_dfs, out_dir), on the dict split_by_region returned.
SaveRegionDfs ==
    /\ out.op = "split_by_region"
    /\ out.err = ""
    /\ out' = [out EXCEPT !.op = "save_region_dfs",
                          !.err = save_region_dfs(files, out.parts, TeslaPrefix).err]
    /\ files' = save_region_dfs(files, out.parts, TeslaPrefix).files
    /\ UNCHANGED df

\* df = load_tesla_data(path, sort), on a file of the output directory.
LoadTeslaData ==
    \E f \in files, sort \in BOOLEAN :
        /\ out' = [NoResult EXCEPT !.op = "load_tesla_data",
                                   !.args = <<sort>>,
                                   !.err = load_tesla_data(f.content, sort).err]
        /\ df' = IF load_tesla_data(f.content, sort).err = ""
                 THEN load_tesla_data(f.content, sort).table ELSE df
        /\ UNCHANGED files

\* The caller rebinds its variable to the table a call returned:
\* df = add_date_column(df), df = _prepare_ts_df(df).
RebindTable ==
    /\ out.op \in {"add_date_column", "_prepare_ts_df"}
    /\ out.err = ""
    /\ df' = out.table
    /\ UNCHANGED <<out, files>>

\* ... or to one of the partitions: df = region_dfs[region].
RebindPart ==
    \E i \in 1..Len(out.parts) :
        /\ out.op = "split_by_region"
        /\ df' = out.parts[i].table
        /\ UNCHANGED <<out, files>>

\* The whole library, as one caller uses it.
Next ==
    \/ GetRegionNames
    \/ SplitByRegion
    \/ AddDateColumn
    \/ SaveRegionDfs
    \/ LoadTeslaData
    \/ PrepareTsDf
    \/ PlotMonthlyDeliveries
    \/ PlotProductionVsDeliveries
    \/ PlotAvgPriceTs
    \/ PlotModelShareTs
    \/ PlotBatteryAndRangeTs
    \/ PlotInfraVsSalesTs
    \/ RebindTable
    \/ RebindPart

\* The partitioner and the exporter.
NextPartition ==
    \/ GetRegionNames
    \/ SplitByRegion
    \/ SaveRegionDfs
    \/ RebindPart

\* The date synthesizer and the date guard.
NextDate ==
    \/ AddDateColumn
    \/ PrepareTsDf
    \/ RebindTable

\* One analysis at a time, on a table with or without its Date column.
NextTotals ==
    \/ AddDateColumn
    \/ RebindTable
    \/ PlotMonthlyDeliveries

NextRatio ==
    \/ AddDateColumn
    \/ RebindTable
    \/ PlotProductionVsDeliveries

NextShare ==
    \/ AddDateColumn
    \/ RebindTable
    \/ PlotModelShareTs

\* The six analyses, on a table with or without its Date column.
NextSeries ==
    \/ AddDateColumn
    \/ RebindTable
    \/ PlotMonthlyDeliveries
    \/ PlotProductionVsDeliveries
    \/ PlotAvgPriceTs
    \/ PlotModelShareTs
    \/ PlotBatteryAndRangeTs
    \/ PlotInfraVsSalesTs

\* ----------------------------------------------------------- input tables
NewRow(year, month, region, model, deliveries, production) ==
    [Year |-> year, Month |-> month, Region |-> region, Model |-> model,
     Estimated_Deliveries |-> deliveries, Production_Units |-> production,
     Avg_Price_USD |-> Num(50), Battery_Capacity_kWh |-> Num(75),
     Range_km |-> Num(500), Charging_Stations |-> Num(10), Date |-> NoDate]

Tables(Rows) ==
    UNION {[1..n -> Rows] : n \in 1..MaxRows}

Fresh(Rows) ==
    /\ df \in {[columns |-> AllColumns, rows |-> t] : t \in Tables(Rows)}
    /\ out = NoResult
    /\ files = {}

\* Regions "EU", "US", " A/B" and a missing Region, in two months.
PartitionRows ==
    {NewRow(Num(2023), m, r, Str(ModelA), Num(100), Num(120)) :
        m \in {Num(1), Num(2)}, r \in {Str(EU), Str(US), Str(AB), NaStr}}

InitPartition == Fresh(PartitionRows)

SpecPartition == InitPartition /\ [][NextPartition]_vars

\* Years 2023, 2023.5 and missing; months 1, 2.5, 13 and missing.
DateRows ==
    {NewRow(y, m, Str(EU), Str(ModelA), Num(100), Num(120)) :
        y \in {Num(2023), Half(2023), NaN}, m \in {Num(1), Half(2), Num(13), NaN}}

InitDate == Fresh(DateRows)

SpecDate == InitDate /\ [][NextDate]_vars

\* US rows delivering 100 or nothing known, EU rows delivering 50, in two
\* months.
TotalsRows ==
    {NewRow(Num(2023), m, rx[1], Str(ModelA), rx[2], Num(120)) :
        m \in {Num(1), Num(2)},
        rx \in {<<Str(US), Num(100)>>, <<Str(EU), Num(50)>>, <<Str(US), NaN>>}}

InitTotals == Fresh(TotalsRows)

SpecTotals == InitTotals /\ [][NextTotals]_vars

\* February 2023 and January 2024, with and without a Model.
OrderRows ==
    {NewRow(ym[1], ym[2], Str(US), model, Num(30), Num(120)) :
        ym \in {<<Num(2023), Num(2)>>, <<Num(2024), Num(1)>>},
        model \in {Str(ModelA), NaStr}}

InitOrder == Fresh(OrderRows)

SpecOrder == InitOrder /\ [][NextSeries]_vars

\* Deliveries and production that may be zero.
RatioRows ==
    {NewRow(Num(2023), m, Str(US), Str(ModelA), x, y) :
        m \in {Num(1), Num(2)}, x \in {Num(0), Num(30)}, y \in {Num(0), Num(10)}}

InitRatio == Fresh(RatioRows)

SpecRatio == InitRatio /\ [][NextRatio]_vars

\* Two models with deliveries of 0, 30 and 70.
ShareRows ==
    {NewRow(Num(2023), m, Str(US), model, x, Num(120)) :
        m \in {Num(1), Num(2)}, model \in {Str(ModelA), Str(ModelB)},
        x \in {Num(0), Num(30), Num(70)}}

InitShare == Fresh(ShareRows)

SpecShare == InitShare /\ [][NextShare]_vars

\* A caller that uses the whole library on one table.
CallerRows ==
    {NewRow(Num(2023), m, r, Str(ModelA), Num(100), Num(120)) :
        m \in {Num(1), Num(2)}, r \in {Str(EU), Str(US)}}

Init == Fresh(CallerRows)

Spec == Init /\ [][Next]_vars

\* ------------------------------------------------------------- properties
Count(rows, r) == Cardinality({i \in 1..Len(rows) : rows[i] = r})

Range(s) == {s[i] : i \in 1..Len(s)}

StrictlyAscending(names) ==
    \A i \in 1..(Len(names) - 1) : names[i] # names[i + 1] /\ StrLe(names[i], names[i + 1])

NonNullRegions(t) == {t.rows[i].Region.s : i \in {j \in 1..Len(t.rows) : ~ t.rows[j].Region.na}}

SplitReturned == out.op = "split_by_region" /\ out.err = ""

\* The rows of partition i, each with its region put back.
Restored(i) ==
    Map(out.parts[i].table.rows, LAMBDA r : [r EXCEPT !.Region = Str(out.parts[i].region)])

PartRowCount == SumSeq([i \in 1..Len(out.parts) |-> Len(out.parts[i].table.rows)])

PartCount(r) == SumSeq([i \in 1..Len(out.parts) |-> Count(Restored(i), r)])

\* C1, as stated: split_by_region(T) loses and duplicates no row of T, whatever
\* T's fields hold: the partitions' row counts add up to T's, and every row of T
\* is in the partitions as often as in T.
C1_PartitionCompleteness ==
    SplitReturned =>
        /\ PartRowCount = Len(out.arg.rows)
        /\ \A r \in Range(out.arg.rows) : PartCount(r) = Count(out.arg.rows, r)

\* C1, amended: the partitions hold exactly the rows of T whose Region is not
\* null, each as often as in T and under its own region; a row with a null
\* Region is in no partition.
C1_NonNullPartitionCompleteness ==
    SplitReturned =>
        /\ PartRowCount = Cardinality({i \in 1..Len(out.arg.rows) : ~ out.arg.rows[i].Region.na})
        /\ \A r \in Range(out.arg.rows) :
              PartCount(r) = IF r.Region.na THEN 0 ELSE Count(out.arg.rows, r)
        /\ \A i \in 1..Len(out.parts) : \A r \in Range(Restored(i)) : r \in Range(out.arg.rows)

C1_Witness ==
    /\ SplitReturned
    /\ Len(out.parts) >= 2
    /\ PartRowCount = 2
    /\ Len(out.arg.rows) = 3
    /\ out.arg.rows[1].Region.na

\* C7: get_region_names(T, sort=True) is in strictly ascending lexicographic
\* order (so without duplicates), holds exactly the non-null regions of T, is
\* the same for every reordering of T's rows, and split_by_region's keys run
\* in that same sequence.
C7_PartitionDeterminism ==
    /\ (out.op = "get_region_names" /\ out.err = "" /\ out.args = <<TRUE>>) =>
          /\ StrictlyAscending(out.names)
          /\ Range(out.names) = NonNullRegions(out.arg)
          /\ \A f \in Orderings(Len(out.arg.rows)) :
                get_region_names([out.arg EXCEPT !.rows =
                                    [i \in 1..Len(out.arg.rows) |-> out.arg.rows[f[i]]]],
                                 TRUE) = out.names
    /\ SplitReturned =>
          /\ StrictlyAscending([i \in 1..Len(out.parts) |-> out.parts[i].region])
          /\ {out.parts[i].region : i \in 1..Len(out.parts)} = NonNullRegions(out.arg)

C7_Witness ==
    /\ out.op = "get_region_names"
    /\ out.args = <<TRUE>>
    /\ out.names = <<AB, EU, US>>
    /\ Len(out.arg.rows) >= 3
    /\ out.arg.rows[1].Region = Str(US)
    /\ out.arg.rows[2].Region = Str(EU)

SaveReturned == out.op = "save_region_dfs" /\ out.err = ""

\* C3: once save_region_dfs(partitions, out_dir, prefix) has returned, every
\* region of partitions has its file {prefix}{sanitized region}.csv in out_dir,
\* holding that region's table.
C3_ExportCompleteness ==
    SaveReturned =>
        \A i \in 1..Len(out.parts) :
            \E f \in files :
                /\ f.path = OutPath(TeslaPrefix, SafeRegion(out.parts[i].region))
                /\ f.content = to_csv(out.parts[i].table)

\* add_date_column was called, directly or by _prepare_ts_df on a table without
\* a Date column.
DateSynthesized ==
    \/ out.op = "add_date_column"
    \/ out.op = "_prepare_ts_df" /\ "Date" \notin out.arg.columns

IsInteger(c) == c.k = "num" /\ ~ c.half

FirstDayOf(year, month) == [k |-> "ts", y |-> year, m |-> month, d |-> 1]

\* C10, as stated: the call fails with a ValueError whenever a row's Year or
\* Month is missing or not an integer, or its Month is outside 1..12; when it
\* returns, every row's Date is the first day of the row's (Year, Month).
C10_DateCoercionFailure ==
    DateSynthesized =>
        /\ (\E r \in Range(out.arg.rows) :
               \/ ~ IsInteger(r.Year)
               \/ ~ IsInteger(r.Month)
               \/ r.Month.n \notin 1..12) => out.err = "ValueError"
        /\ out.err = "" =>
              \A r \in Range(out.table.rows) :
                  /\ IsInteger(r.Year) /\ IsInteger(r.Month)
                  /\ r.Date = FirstDayOf(r.Year.n, r.Month.n)

\* C10, amended: the call fails with a ValueError exactly when a row's Year or
\* Month is missing, or the whole part of its Month is outside 1..12; a Year or
\* Month with a fraction is truncated, not refused.  When the call returns,
\* every row's Date is the first day of the whole parts of its (Year, Month),
\* and add_date_column changes nothing else.
C10_DateCoercionTruncates ==
    DateSynthesized =>
        /\ out.err \in {"", "ValueError"}
        /\ out.err = "ValueError" <=>
              \E r \in Range(out.arg.rows) :
                  \/ r.Year.k = "nan"
                  \/ r.Month.k = "nan"
                  \/ (IF r.Month.half /\ r.Month.n < 0 THEN r.Month.n + 1 ELSE r.Month.n)
                        \notin 1..12
        /\ out.err = "" =>
              /\ "Date" \in out.table.columns
              /\ Len(out.table.rows) = Len(out.arg.rows)
              /\ \A r \in Range(out.table.rows) :
                    r.Date = FirstDayOf(r.Year.n, r.Month.n)
              /\ out.op = "add_date_column" =>
                    \A i \in 1..Len(out.arg.rows) :
                        [out.table.rows[i] EXCEPT !.Date = out.arg.rows[i].Date] = out.arg.rows[i]

C10_Witness ==
    /\ out.op = "add_date_column"
    /\ out.err = ""
    /\ Len(out.arg.rows) >= 2
    /\ \E r \in Range(out.arg.rows) : r.Year.half
    /\ \E r \in Range(out.table.rows) : r.Month.half /\ r.Date = FirstDayOf(2023, 2)

\* C4: _prepare_ts_df applied to its own result returns that result: the same
\* Date values and the same row order, rows of equal Date included.
C4_DateIdempotence ==
    [][(/\ out.op = "_prepare_ts_df"
        /\ out.err = ""
        /\ df = out.table
        /\ out'.op = "_prepare_ts_df"
        /\ out'.arg = df) => out'.table = out.table]_vars

\* C5: no call of add_date_column, split_by_region, _prepare_ts_df or a plot_*
\* operation changes the table the caller holds.
C5_CallerTableUnchanged ==
    [][(out' # out /\ out'.op # "load_tesla_data") => df' = df]_vars

\* The month a row falls in, as the date synthesizer computes it.
MonthOf(r) == FirstDayOf(r.Year.n, r.Month.n)

RECURSIVE DeliveriesOf(_, _)
DeliveriesOf(rows, d) ==
    IF rows = <<>> THEN 0
    ELSE DeliveriesOf(Tail(rows), d)
         + (IF MonthOf(Head(rows)) = d /\ Head(rows).Estimated_Deliveries.k = "num"
            THEN Head(rows).Estimated_Deliveries.n ELSE 0)

\* C8: plot_monthly_deliveries maps every Date d of T to the sum of
\* Estimated_Deliveries over the rows of T whose (Year, Month) gives d, all
\* regions and models together (a missing value adds nothing), and has no
\* other entry.
C8_MonthlyTotals ==
    (out.op = "plot_monthly_deliveries" /\ out.err = "") =>
        /\ {e.Date : e \in Range(out.series)} = {MonthOf(r) : r \in Range(out.arg.rows)}
        /\ \A e \in Range(out.series) :
              e.v["Estimated_Deliveries"] = Rat(DeliveriesOf(out.arg.rows, e.Date), 1)
        /\ \A i, j \in 1..Len(out.series) : i # j => out.series[i].Date # out.series[j].Date

C8_Witness ==
    /\ out.op = "plot_monthly_deliveries"
    /\ Len(out.arg.rows) = 3
    /\ out.arg.rows[1].Month = Num(2)
    /\ {r.Region : r \in Range(out.arg.rows)} = {Str(US), Str(EU)}
    /\ out.series = <<[Date |-> FirstDayOf(2023, 1),
                       v |-> [c \in {"Estimated_Deliveries"} |-> Rat(150, 1)]],
                      [Date |-> FirstDayOf(2023, 2),
                       v |-> [c \in {"Estimated_Deliveries"} |-> Rat(100, 1)]]>>

PlotOps == {"plot_monthly_deliveries", "plot_production_vs_deliveries",
            "plot_avg_price_ts", "plot_model_share_ts",
            "plot_battery_and_range_ts", "plot_infra_vs_sales_ts"}

Chronological(series) ==
    \A i \in 1..(Len(series) - 1) : DateOrd(series[i].Date) < DateOrd(series[i + 1].Date)

\* C6, as stated: each of the six analyses returns one entry per distinct Date
\* of the input table, in chronological order.
C6_ChronologicalOrdering ==
    (out.op \in PlotOps /\ out.err = "") =>
        /\ Chronological(out.series)
        /\ {e.Date : e \in Range(out.series)} = {MonthOf(r) : r \in Range(out.arg.rows)}

\* C6, amended: each of the six analyses returns its entries in strictly
\* ascending Date order, whatever the order of the input rows: one entry per
\* distinct Date of the input table, except that plot_model_share_ts has one
\* entry per distinct Date of the rows whose Model is not null.
C6_ChronologicalOrderingKeyed ==
    (out.op \in PlotOps /\ out.err = "") =>
        /\ Chronological(out.series)
        /\ {e.Date : e \in Range(out.series)} =
              {MonthOf(r) : r \in {x \in Range(out.arg.rows) :
                                     out.op = "plot_model_share_ts" => ~ x.Model.na}}

C6_Witness ==
    /\ out.op = "plot_model_share_ts"
    /\ out.err = ""
    /\ Len(out.arg.rows) = 3
    /\ out.arg.rows[1].Year = Num(2024)
    /\ out.arg.rows[1].Model.na
    /\ out.arg.rows[2].Year = Num(2023)
    /\ Len(out.series) = 2

RECURSIVE CellSum(_, _)
CellSum(v, S) ==
    IF S = {} THEN Rat(0, 1)
    ELSE LET x == CHOOSE x \in S : TRUE
         IN  RatAdd(v[x], CellSum(v, S \ {x}))

\* C2: in the share table, the fractions of every Date add up to 1, or are all
\* 0.0 when the Date's total is zero; no cell is undefined.
C2_ShareRowInvariant ==
    (out.op = "plot_model_share_ts" /\ out.err = "") =>
        \A e \in Range(out.series) :
            /\ \A model \in DOMAIN e.v : e.v[model].k = "num"
            /\ \/ CellSum(e.v, DOMAIN e.v).num = CellSum(e.v, DOMAIN e.v).den
               \/ \A model \in DOMAIN e.v : e.v[model].num = 0

\* C9: in plot_production_vs_deliveries the ratio of a Date whose summed
\* Production_Units is zero is 0.0, and neither the ratios nor their mean hold
\* an undefined or infinite value; the call does not raise.
C9_ZeroDivisionPolicy ==
    out.op = "plot_production_vs_deliveries" =>
        /\ out.err = ""
        /\ \A s \in Range(out.stats) :
              /\ s.ratio_mean.k = "num"
              /\ \A i \in 1..Len(s.ratio) :
                    /\ s.ratio[i].k = "num"
                    /\ out.series[i].v["Production_Units"].num = 0 => s.ratio[i].num = 0

\* A step that is a call of save_region_dfs on the dict out.parts.
SaveCalled ==
    /\ out.op = "split_by_region"
    /\ out.err = ""
    /\ out'.op = "save_region_dfs"

LastRegionPath == OutPath(TeslaPrefix, SafeRegion(out.parts[Len(out.parts)].region))

\* The call wrote one file and no other: the directory afterwards holds the
\* last region's table under the last region's name, and everything else it
\* held before under another name.
WroteLastRegionOnly ==
    /\ out'.err = ""
    /\ {f \in files' : f.path = LastRegionPath}
          = {[path |-> LastRegionPath, content |-> to_csv(out.parts[Len(out.parts)].table)]}
    /\ {f \in files' : f.path # LastRegionPath} = {f \in files : f.path # LastRegionPath}

\* C11, as stated: whatever the number of regions of the mapping,
\* save_region_dfs produces exactly one file, named after the last region in
\* iteration order and holding that region's table.
C11_OneFileForLastRegion ==
    [][SaveCalled => (out.parts # <<>> /\ WroteLastRegionOnly)]_vars

\* C11, amended: for a mapping with at least one region, save_region_dfs
\* writes exactly one file, named after the last region in iteration order
\* and holding that region's table; for an empty mapping it raises a NameError
\* (safe_region is unbound) and writes no file.
C11_OneFileUnlessEmpty ==
    [][SaveCalled =>
          IF out.parts = <<>>
          THEN out'.err = "NameError" /\ files' = files
          ELSE WroteLastRegionOnly]_vars

C11_Witness ==
    /\ SaveReturned
    /\ Len(out.parts) = 3
    /\ files = {[path |-> TeslaPrefix \o <<117, 115>> \o CsvSuffix,
                 content |-> to_csv(out.parts[3].table)]}

====
